---------------------------- MODULE Spec2Model ----------------------------
(***************************************************************************)
(* serve.py: a static file server on localhost:8000 whose request handler, *)
(* NoCacheHandler, overrides end_headers to queue three no-cache headers   *)
(* before the header block is terminated and sent.                         *)
(*                                                                         *)
(* The program is one subclass and one main block; everything else it does *)
(* is inherited from http.server and socketserver.  The inherited methods  *)
(* are modelled from the library code that `class NoCacheHandler(          *)
(* SimpleHTTPRequestHandler)` and `HTTPServer(...)` bring in, on a POSIX   *)
(* host.  A handler object is a record; a method that mutates self is an   *)
(* operator from the record before to the record after.                    *)
(*                                                                         *)
(* Strings that the code takes apart are kept at the grain it takes them   *)
(* apart: a request path is the sequence path.split('/') gives, so "/a/.." *)
(* is <<"", "a", "..">> and a trailing slash is a last element "".         *)
(***************************************************************************)
EXTENDS Integers, Sequences, FiniteSets, TLC

\* Bounds of the model.
MaxConns == 2       \* connection slots (sockets open at the same time)
MaxTime == 1        \* the clock runs 0..MaxTime
MaxFsChanges == 1   \* rewrites of a.txt by other processes
MaxSegs == 3        \* segments of an enumerated request path (SpecRequests)

ConnIds == 1..MaxConns
Instances == {1, 2}

\* serve.py:14, the address both instances ask for.
Port == 8000

VARIABLES
    proc,      \* proc[i]: one run of serve.py: [pc, printed]
    owner,     \* the instance whose socket is bound to localhost:Port, or 0
    conn,      \* conn[c]: a client connection: [st, req, srv, ver]
    hs,        \* hs[c]: the NoCacheHandler object serving conn c
    ref,       \* ref[c]: a plain SimpleHTTPRequestHandler given the same request
    fs,        \* the file system (absolute path -> node)
    fsver,     \* how many times a.txt was rewritten
    now,       \* the clock
    observed   \* one response a client has kept, for comparison with a later one

vars == <<proc, owner, conn, hs, ref, fs, fsver, now, observed>>

--------------------------------------------------------------------------
(* Sequences *)

Last(s) == s[Len(s)]
Front(s) == SubSeq(s, 1, Len(s) - 1)

IsPrefix(p, s) == Len(p) <= Len(s) /\ SubSeq(s, 1, Len(p)) = p

RECURSIVE Flatten(_)
Flatten(ss) == IF ss = <<>> THEN <<>> ELSE Head(ss) \o Flatten(Tail(ss))

RECURSIVE SelectSeqOf(_, _)
\* the elements of s that are in set S, in order
SelectSeqOf(s, S) ==
    IF s = <<>> THEN <<>>
    ELSE IF Head(s) \in S THEN <<Head(s)>> \o SelectSeqOf(Tail(s), S)
         ELSE SelectSeqOf(Tail(s), S)

RECURSIVE SeqsUpTo(_, _)
\* the non-empty sequences over S of length at most n
SeqsUpTo(S, n) ==
    IF n = 0 THEN {}
    ELSE LET shorter == SeqsUpTo(S, n - 1)
         IN  {<<x>> : x \in S} \cup shorter
                \cup {Append(s, x) : s \in shorter, x \in S}

--------------------------------------------------------------------------
(* The file system.  The served directory is /www; /passwd lies outside.   *)

Directory == <<"www">>          \* os.getcwd() of the process
NoPath == <<"\\ENOENT">>        \* a path that resolves to nothing

Absent == [kind |-> "none", data |-> 0, mtime |-> 0, size |-> 0, target |-> <<>>]
Dir == [kind |-> "dir", data |-> 0, mtime |-> 0, size |-> 0, target |-> <<>>]
File(d, t) == [kind |-> "file", data |-> d, mtime |-> t, size |-> d + 1, target |-> <<>>]
Link(p) == [kind |-> "link", data |-> 0, mtime |-> 0, size |-> 0, target |-> p]

FsPaths ==
    { <<>>, <<"passwd">>, <<"www">>, <<"www", "a.txt">>, <<"www", "sub">>,
      <<"www", "sub", "index.html">>, <<"www", "link">> }

\* File contents are numbers: a.txt holds its version, /passwd holds 99.
Tree(hasIndex, hasLink) ==
    [p \in FsPaths |->
        CASE p = <<>> -> Dir
          [] p = <<"passwd">> -> File(99, 0)
          [] p = <<"www">> -> Dir
          [] p = <<"www", "a.txt">> -> File(0, 0)
          [] p = <<"www", "sub">> -> Dir
          [] p = <<"www", "sub", "index.html">> ->
                 IF hasIndex THEN File(50, 0) ELSE Absent
          [] p = <<"www", "link">> ->
                 IF hasLink THEN Link(<<"passwd">>) ELSE Absent]

InitialFileSystems == {Tree(i, l) : i \in BOOLEAN, l \in BOOLEAN}

Lookup(f, p) == IF p \in DOMAIN f THEN f[p] ELSE Absent

RECURSIVE Walk(_, _, _)
\* The kernel's path resolution from directory cur: "." stays, ".." goes up,
\* a symbolic link is followed (its target is absolute).
Walk(f, cur, rest) ==
    IF cur = NoPath THEN NoPath
    ELSE IF rest = <<>> THEN cur
    ELSE IF Lookup(f, cur).kind # "dir" THEN NoPath
    ELSE LET w == Head(rest) IN
         IF w = "." THEN Walk(f, cur, Tail(rest))
         ELSE IF w = ".." THEN
              Walk(f, IF cur = <<>> THEN <<>> ELSE Front(cur), Tail(rest))
         ELSE LET n == Lookup(f, Append(cur, w)) IN
              IF n.kind = "none" THEN NoPath
              ELSE IF n.kind = "link" THEN Walk(f, n.target, Tail(rest))
              ELSE Walk(f, Append(cur, w), Tail(rest))

\* The node an absolute path names, as open(), stat() and listdir() find it.
Resolve(f, names) == Walk(f, <<>>, names)

RECURSIVE ThroughLink(_, _)
\* TRUE when the path, or a prefix of it, names a symbolic link
ThroughLink(f, names) ==
    IF names = <<>> THEN FALSE
    ELSE Lookup(f, names).kind = "link" \/ ThroughLink(f, Front(names))

\* os.path.isdir, os.path.isfile: a local path is [names, slash]
IsDir(f, lp) ==
    LET r == Resolve(f, lp.names) IN r # NoPath /\ Lookup(f, r).kind = "dir"

IsFile(f, lp) ==
    LET r == Resolve(f, lp.names)
    IN  r # NoPath /\ Lookup(f, r).kind = "file" /\ ~lp.slash

\* os.listdir(path), then list.sort(key=lambda a: a.lower())
NameOrder == <<"a.txt", "index.html", "link", "passwd", "sub", "www">>

ListDir(f, dirpath) ==
    SelectSeqOf(NameOrder,
        {n \in {NameOrder[i] : i \in 1..Len(NameOrder)} :
            Lookup(f, Append(dirpath, n)).kind # "none"})

--------------------------------------------------------------------------
(* Requests.  A request is what the client sends on one connection:        *)
(* the request line, split as parse_request splits it, and the headers     *)
(* the handler looks at.                                                   *)
(*   nwords   len(requestline.split()): 0 a blank line, 1 a lone command,  *)
(*            2 an HTTP/0.9 simple request, 3 a full request line, 4 a     *)
(*            line with one word too many (its last word is the version)   *)
(*   target   the path part of the request target, as target.split('/')    *)
(*   query    what follows the path ("" or a "?..." / "#..." suffix)       *)
(*   ims      If-Modified-Since as a time, or -1 when absent               *)
(*   toolong  the request line is longer than 65536 bytes                  *)

Req(n, cmd, tgt, q, ver, i, conntype, exp, big) ==
    [nwords |-> n, command |-> cmd, target |-> tgt, query |-> q, version |-> ver,
     ims |-> i, connection |-> conntype, expect |-> exp, toolong |-> big]

NoReq == Req(-1, "", <<>>, "", "", -1, "", FALSE, FALSE)

\* the client sends nothing and closes: readline() returns b''
Eof == NoReq

Get(tgt, ver) == Req(3, "GET", tgt, "", ver, -1, "", FALSE, FALSE)

\* One request for each way through the handler.
AllRequests ==
    { Get(<<"", "a.txt">>, "HTTP/1.0"),
      Get(<<"", "a.txt">>, "HTTP/1.1"),
      Get(<<"", "a.txt">>, "HTTP/0.9"),
      Get(<<"", "a.txt">>, "HTTP/x"),
      Get(<<"", "a.txt">>, "HTTP/2.0"),
      Req(2, "GET", <<"", "a.txt">>, "", "", -1, "", FALSE, FALSE),
      Req(2, "HEAD", <<"", "a.txt">>, "", "", -1, "", FALSE, FALSE),
      Req(1, "GET", <<>>, "", "", -1, "", FALSE, FALSE),
      Req(0, "", <<>>, "", "", -1, "", FALSE, FALSE),
      Eof,
      Req(4, "GET", <<"", "a.txt">>, "", "HTTP/1.0", -1, "", FALSE, FALSE),
      Req(3, "GET", <<"", "a.txt">>, "", "HTTP/1.0", -1, "", FALSE, TRUE),
      Req(3, "GET", <<"", "a.txt">>, "", "HTTP/1.0", 0, "", FALSE, FALSE),
      Req(3, "GET", <<"", "a.txt">>, "", "HTTP/1.1", -1, "keep-alive", TRUE, FALSE),
      Req(3, "HEAD", <<"", "a.txt">>, "", "HTTP/1.0", -1, "", FALSE, FALSE),
      Req(3, "POST", <<"", "a.txt">>, "", "HTTP/1.0", -1, "", FALSE, FALSE),
      Get(<<"", "missing">>, "HTTP/1.0"),
      Get(<<"", "a.txt", "">>, "HTTP/1.0"),
      Req(3, "GET", <<"", "sub">>, "?q", "HTTP/1.0", -1, "", FALSE, FALSE),
      Get(<<"", "sub", "">>, "HTTP/1.0"),
      Get(<<"", "">>, "HTTP/1.0"),
      Get(<<"", "", "sub">>, "HTTP/1.0"),
      Get(<<"..", "passwd">>, "HTTP/1.0"),
      Get(<<"", "%2e%2e", "passwd">>, "HTTP/1.0"),
      Get(<<"", "link">>, "HTTP/1.0") }

\* The requests clients send in Spec, where connections interleave.
Requests ==
    { Get(<<"", "a.txt">>, "HTTP/1.0"),
      Req(2, "GET", <<"", "a.txt">>, "", "", -1, "", FALSE, FALSE),
      Req(3, "GET", <<"", "a.txt">>, "", "HTTP/1.0", 0, "", FALSE, FALSE),
      Get(<<"", "sub", "">>, "HTTP/1.0") }

\* The requests clients send in SpecPorts, where two instances run.
PortRequests ==
    { Get(<<"", "a.txt">>, "HTTP/1.0"),
      Req(2, "GET", <<"", "a.txt">>, "", "", -1, "", FALSE, FALSE) }

\* The path segments SpecRequests enumerates request paths over.
Segments == {"", ".", "..", "%2e%2e", "..%2f..", "passwd", "a.txt", "sub", "link"}

PathRequests == {Get(p, "HTTP/1.0") : p \in SeqsUpTo(Segments, MaxSegs) \ {<<"">>}}

--------------------------------------------------------------------------
(* Paths *)

\* urllib.parse.unquote on one segment: %2e is ".", %2f is "/" (so a segment
\* may decode to several)
Unquote(seg) ==
    CASE seg = "%2e%2e" -> <<"..">>
      [] seg = "..%2f.." -> <<"..", "..">>
      [] OTHER -> <<seg>>

UnquotePath(segs) == Flatten([i \in 1..Len(segs) |-> Unquote(segs[i])])

StartsWithSlash(segs) == Len(segs) >= 2 /\ segs[1] = ""
EndsWithSlash(segs) == Len(segs) >= 2 /\ Last(segs) = ""

RECURSIVE LStripSlash(_)
\* path.lstrip('/')
LStripSlash(segs) ==
    IF StartsWithSlash(segs) THEN LStripSlash(Tail(segs)) ELSE segs

RECURSIVE NormComps(_, _, _)
\* the loop of posixpath.normpath over path.split('/')
NormComps(comps, new, initial) ==
    IF comps = <<>> THEN new
    ELSE LET c == Head(comps) IN
         IF c \in {"", "."} THEN NormComps(Tail(comps), new, initial)
         ELSE IF c # ".." \/ (initial = 0 /\ new = <<>>)
                  \/ (new # <<>> /\ Last(new) = "..")
              THEN NormComps(Tail(comps), Append(new, c), initial)
         ELSE IF new # <<>> THEN NormComps(Tail(comps), Front(new), initial)
         ELSE NormComps(Tail(comps), new, initial)

\* posixpath.normpath(path).split('/')
NormPathSplit(segs) ==
    LET initial == IF ~StartsWithSlash(segs) THEN 0
                   ELSE IF Len(segs) >= 3 /\ segs[2] = ""
                           /\ ~(Len(segs) >= 4 /\ segs[3] = "") THEN 2
                   ELSE 1
        comps == NormComps(segs, <<>>, initial)
    IN  IF initial = 0 /\ comps = <<>> THEN <<".">>
        ELSE [i \in 1..initial |-> ""] \o
             (IF comps = <<>> /\ initial > 0 THEN <<"">> ELSE comps)

RECURSIVE JoinWords_all(_, _)
\* the loop of translate_path without its test: every word is joined
JoinWords_all(path, words) ==
    IF words = <<>> THEN path
    ELSE JoinWords_all(Append(path, Head(words)), Tail(words))

RECURSIVE JoinWords(_, _)
\* the loop of translate_path: words that are "." or ".." are skipped
\* (os.path.dirname(word) is empty for every word: none holds a "/")
JoinWords(path, words) ==
    IF words = <<>> THEN path
    ELSE IF Head(words) \in {".", ".."} THEN JoinWords(path, Tail(words))
    ELSE JoinWords(Append(path, Head(words)), Tail(words))

RECURSIVE FilterNonEmpty(_)
\* filter(None, words)
FilterNonEmpty(words) ==
    IF words = <<>> THEN <<>>
    ELSE IF Head(words) = "" THEN FilterNonEmpty(Tail(words))
    ELSE <<Head(words)>> \o FilterNonEmpty(Tail(words))

\* SimpleHTTPRequestHandler.translate_path.  The query and the fragment are
\* cut off first: a request keeps them apart, in its field query.
TranslatePath(segs) ==
    LET words == FilterNonEmpty(NormPathSplit(UnquotePath(segs)))
    IN  [names |-> JoinWords(Directory, words), slash |-> EndsWithSlash(segs)]

\* SimpleHTTPRequestHandler.guess_type, by the extension of the last name
GuessType(names) ==
    CASE Last(names) \in {"a.txt"} -> "text/plain"
      [] Last(names) \in {"index.html", "index.htm"} -> "text/html"
      [] OTHER -> "application/octet-stream"

--------------------------------------------------------------------------
(* What is written to a socket: a sequence of items.                       *)
(*   status  a status line (k the protocol version, n the code, v the      *)
(*           reason phrase)                                                *)
(*   hdr     a header line k: v (n holds the value when it is a number or  *)
(*           a time)                                                       *)
(*   end     the blank line that ends the header block                     *)
(*   body    a body: a file's bytes (k = "file", n its content), an error  *)
(*           page (k = "error", n the code, v the message) or a directory  *)
(*           listing (k = "listing", data the names)                       *)

Item(t, k, v, n, d) == [t |-> t, k |-> k, v |-> v, n |-> n, data |-> d]
Hdr(k, v, n) == Item("hdr", k, v, n, <<>>)
EndOfHeaders == Item("end", "", "", 0, <<>>)
NoBody == Item("none", "", "", 0, <<>>)

\* BaseHTTPRequestHandler class attributes
ProtocolVersion == "HTTP/1.0"
DefaultRequestVersion == "HTTP/0.9"

\* the phrase of an HTTPStatus member (self.responses[code][0])
Phrase(code) ==
    CASE code = 200 -> "OK"
      [] code = 100 -> "Continue"
      [] code = 301 -> "Moved Permanently"
      [] code = 304 -> "Not Modified"
      [] code = 400 -> "Bad Request"
      [] code = 404 -> "Not Found"
      [] code = 414 -> "Request-URI Too Long"
      [] code = 501 -> "Not Implemented"
      [] code = 505 -> "HTTP Version Not Supported"
      [] OTHER -> "???"

\* version.split('/', 1)[1].split('.') as two integers; <<-1, -1>> where
\* parse_request raises ValueError
VersionNumber(v) ==
    CASE v = "HTTP/0.9" -> <<0, 9>>
      [] v = "HTTP/1.0" -> <<1, 0>>
      [] v = "HTTP/1.1" -> <<1, 1>>
      [] v = "HTTP/2.0" -> <<2, 0>>
      [] OTHER -> <<-1, -1>>

TupleGE(a, b) == a[1] > b[1] \/ (a[1] = b[1] /\ a[2] >= b[2])

\* s >= "HTTP/1.1" on strings, for the version strings that occur
StrGE11(s) == s \in {"HTTP/1.1", "HTTP/2.0", "HTTP/x"}

(* The handler object.                                                     *)
(*   buf      _headers_buffer                                              *)
(*   wfile    what has been written to the socket (wbufsize is 0)          *)
(*   pending  the file object send_head returned, still to be copied       *)
(*   local    the path translate_path gave; opened: the node that open()   *)
(*            or listdir() then read (NoPath when none was)                *)
(*   calls    how many times end_headers has run                           *)
NewHandler ==
    [live |-> TRUE, request_version |-> "", command |-> "", path |-> <<>>,
     query |-> "", close_connection |-> TRUE, buf |-> <<>>, wfile |-> <<>>,
     pending |-> NoBody, local |-> <<>>, opened |-> NoPath, calls |-> 0]

NoHandler == [NewHandler EXCEPT !.live = FALSE]

\* BaseHTTPRequestHandler.send_response_only
SendResponseOnly(h, code, message) ==
    IF h.request_version # "HTTP/0.9"
    THEN [h EXCEPT !.buf = Append(@, Item("status", ProtocolVersion, message, code, <<>>))]
    ELSE h

\* BaseHTTPRequestHandler.send_header; the value is v, n (a number or a
\* time) and d (a path)
SendHeaderData(h, keyword, v, n, d) ==
    LET h1 == IF h.request_version # "HTTP/0.9"
              THEN [h EXCEPT !.buf = Append(@, Item("hdr", keyword, v, n, d))]
              ELSE h
    IN  IF keyword = "Connection" /\ v = "close"
        THEN [h1 EXCEPT !.close_connection = TRUE]
        ELSE IF keyword = "Connection" /\ v = "keep-alive"
        THEN [h1 EXCEPT !.close_connection = FALSE]
        ELSE h1

SendHeader(h, keyword, value, n) == SendHeaderData(h, keyword, value, n, <<>>)

\* flush_headers that writes the buffer and keeps it
FlushHeaders_keep(h) == [h EXCEPT !.wfile = @ \o h.buf]

\* BaseHTTPRequestHandler.flush_headers
FlushHeaders(h) == [h EXCEPT !.wfile = @ \o h.buf, !.buf = <<>>]

\* BaseHTTPRequestHandler.end_headers
BaseEndHeaders(h) ==
    IF h.request_version # "HTTP/0.9"
    THEN FlushHeaders([h EXCEPT !.buf = Append(@, EndOfHeaders)])
    ELSE h

\* BaseHTTPRequestHandler.send_response (log_request writes to stderr)
SendResponse(h, code, message, t) ==
    SendHeader(SendHeader(SendResponseOnly(h, code, message),
                          "Server", "SimpleHTTP/0.6", 0),
               "Date", "", t)

\* serve.py:8-10, the values of the three headers
CacheControlValue == "no-store, no-cache, must-revalidate, max-age=0"
PragmaValue == "no-cache"
ExpiresValue_date == "Thu, 01 Jan 1970 00:00:00 GMT"
ExpiresValue == "0"

\* end_headers with Expires given as the current time
NoCacheEndHeaders_dated(h) ==
    LET h1 == SendHeader(h, "Cache-Control", CacheControlValue, 0)
        h2 == SendHeader(h1, "Pragma", PragmaValue, 0)
        h3 == SendHeader(h2, "Expires", "", now)
    IN  BaseEndHeaders(h3)

\* end_headers without its last line, super().end_headers()
NoCacheEndHeaders_nosuper(h) ==
    LET h1 == SendHeader(h, "Cache-Control", CacheControlValue, 0)
        h2 == SendHeader(h1, "Pragma", PragmaValue, 0)
    IN  SendHeader(h2, "Expires", ExpiresValue, 0)

\* end_headers with super().end_headers() as its first line
NoCacheEndHeaders_late(h) ==
    LET h0 == BaseEndHeaders(h)
        h1 == SendHeader(h0, "Cache-Control", CacheControlValue, 0)
        h2 == SendHeader(h1, "Pragma", PragmaValue, 0)
    IN  SendHeader(h2, "Expires", ExpiresValue, 0)

\* end_headers with the Pragma line written twice
NoCacheEndHeaders_dup(h) ==
    LET h1 == SendHeader(h, "Cache-Control", CacheControlValue, 0)
        h2 == SendHeader(h1, "Pragma", PragmaValue, 0)
        h3 == SendHeader(h2, "Pragma", PragmaValue, 0)
        h4 == SendHeader(h3, "Expires", ExpiresValue, 0)
    IN  BaseEndHeaders(h4)

\* NoCacheHandler.end_headers
NoCacheEndHeaders(h) ==
    LET h1 == SendHeader(h, "Cache-Control", CacheControlValue, 0)
        h2 == SendHeader(h1, "Pragma", PragmaValue, 0)
        h3 == SendHeader(h2, "Expires", ExpiresValue, 0)
    IN  BaseEndHeaders(h3)

\* self.end_headers(): the method of the handler's class
EndHeaders(cls, h) ==
    LET h1 == [h EXCEPT !.calls = @ + 1]
    IN  IF cls = "NoCacheHandler" THEN NoCacheEndHeaders(h1) ELSE BaseEndHeaders(h1)

\* BaseHTTPRequestHandler.send_error
SendError(cls, h, code, message, arg, t) ==
    LET h1 == SendHeader(SendResponse(h, code, message, t), "Connection", "close", 0)
        hasBody == code >= 200 /\ code \notin {204, 205, 304}
        body == Item("body", "error", message, code, arg)
        h2 == IF hasBody
              THEN SendHeader(SendHeader(h1, "Content-Type", "text/html;charset=utf-8", 0),
                              "Content-Length", "", Len(arg) + 1)
              ELSE h1
        h3 == EndHeaders(cls, h2)
    IN  IF h.command # "HEAD" /\ hasBody
        THEN [h3 EXCEPT !.wfile = Append(@, body)]
        ELSE h3

\* BaseHTTPRequestHandler.handle_expect_100
HandleExpect100(cls, h) == EndHeaders(cls, SendResponseOnly(h, 100, Phrase(100)))

\* BaseHTTPRequestHandler.parse_request: [h, ok]
ParseRequest(cls, h, req, t) ==
    LET h0 == [h EXCEPT !.command = "", !.request_version = DefaultRequestVersion,
                        !.close_connection = TRUE]
        vn == VersionNumber(req.version)
        h1 == IF req.nwords >= 3
              THEN [h0 EXCEPT !.request_version = req.version,
                              !.close_connection =
                                  ~(TupleGE(vn, <<1, 1>>) /\ StrGE11(ProtocolVersion))]
              ELSE h0
        segs == IF Len(req.target) >= 3 /\ req.target[1] = "" /\ req.target[2] = ""
                THEN <<"">> \o LStripSlash(req.target)
                ELSE req.target
        h2 == [h1 EXCEPT !.command = req.command, !.path = segs, !.query = req.query,
                         !.close_connection = IF req.nwords = 2 THEN TRUE ELSE @]
        h3 == IF req.connection = "close" THEN [h2 EXCEPT !.close_connection = TRUE]
              ELSE IF req.connection = "keep-alive" /\ StrGE11(ProtocolVersion)
              THEN [h2 EXCEPT !.close_connection = FALSE]
              ELSE h2
    IN  IF req.nwords = 0 THEN [h |-> h0, ok |-> FALSE]
        ELSE IF req.nwords >= 3 /\ vn = <<-1, -1>>
        THEN [h |-> SendError(cls, h0, 400, "Bad request version", <<req.version>>, t),
              ok |-> FALSE]
        ELSE IF req.nwords >= 3 /\ TupleGE(vn, <<2, 0>>)
        THEN [h |-> SendError(cls,
                        [h0 EXCEPT !.close_connection = h1.close_connection],
                        505, "Invalid HTTP version", <<req.version>>, t),
              ok |-> FALSE]
        ELSE IF ~(2 <= req.nwords /\ req.nwords <= 3)
        THEN [h |-> SendError(cls, h1, 400, "Bad request syntax", <<>>, t), ok |-> FALSE]
        ELSE IF req.nwords = 2 /\ req.command # "GET"
        THEN [h |-> SendError(cls, [h1 EXCEPT !.close_connection = TRUE], 400,
                              "Bad HTTP/0.9 request type", <<req.command>>, t),
              ok |-> FALSE]
        ELSE IF req.expect /\ StrGE11(ProtocolVersion) /\ StrGE11(h3.request_version)
        THEN [h |-> HandleExpect100(cls, h3), ok |-> TRUE]
        ELSE [h |-> h3, ok |-> TRUE]

\* SimpleHTTPRequestHandler.list_directory (every directory of the model can
\* be listed)
ListDirectory(cls, h, f, lp, t) ==
    LET d == Resolve(f, lp.names)
        names == ListDir(f, d)
        h1 == SendResponse(h, 200, Phrase(200), t)
        h2 == SendHeader(h1, "Content-type", "text/html; charset=utf-8", 0)
        h3 == SendHeader(h2, "Content-Length", "", Len(names))
    IN  [EndHeaders(cls, h3) EXCEPT
            !.opened = d,
            !.pending = Item("body", "listing", "", 0, names)]

\* SimpleHTTPRequestHandler.send_head, from guess_type and open() on
SendFile(cls, h0, f, lp, ims, t) ==
    LET h == [h0 EXCEPT !.local = lp.names]
        r == Resolve(f, lp.names)
        node == Lookup(f, r)
    IN  IF lp.slash
        THEN SendError(cls, h, 404, "File not found", <<>>, t)
        ELSE IF r = NoPath \/ node.kind # "file"
        THEN SendError(cls, h, 404, "File not found", <<>>, t)
        ELSE IF ims # -1 /\ node.mtime <= ims
        THEN [EndHeaders(cls, SendResponse(h, 304, Phrase(304), t)) EXCEPT !.opened = r]
        ELSE LET h1 == SendResponse(h, 200, Phrase(200), t)
                 h2 == SendHeader(h1, "Content-type", GuessType(lp.names), 0)
                 h3 == SendHeader(h2, "Content-Length", "", node.size)
                 h4 == SendHeader(h3, "Last-Modified", "", node.mtime)
             IN  [EndHeaders(cls, h4) EXCEPT
                     !.opened = r,
                     !.pending = Item("body", "file", "", node.data, <<>>)]

\* SimpleHTTPRequestHandler.send_head
SendHead(cls, h, f, ims, t) ==
    LET lp == TranslatePath(h.path)
        hl == [h EXCEPT !.local = lp.names]
        index1 == [names |-> Append(lp.names, "index.html"), slash |-> FALSE]
        index2 == [names |-> Append(lp.names, "index.htm"), slash |-> FALSE]
    IN  IF IsDir(f, lp)
        THEN IF ~EndsWithSlash(h.path)
             THEN LET h1 == SendResponse(hl, 301, Phrase(301), t)
                      h2 == SendHeaderData(h1, "Location", h.query, 0, Append(h.path, ""))
                  IN  EndHeaders(cls, SendHeader(h2, "Content-Length", "0", 0))
             ELSE IF IsFile(f, index1) THEN SendFile(cls, hl, f, index1, ims, t)
             ELSE IF IsFile(f, index2) THEN SendFile(cls, hl, f, index2, ims, t)
             ELSE ListDirectory(cls, hl, f, lp, t)
        ELSE SendFile(cls, hl, f, lp, ims, t)

\* BaseHTTPRequestHandler.handle_one_request, up to the return of send_head
\* (do_GET and do_HEAD both start with it)
HandleHead(cls, h, req, f, t) ==
    LET parsed == ParseRequest(cls, h, req, t)
        hp == parsed.h
    IN  IF req.toolong
        THEN SendError(cls, [h EXCEPT !.request_version = "", !.command = ""],
                       414, Phrase(414), <<>>, t)
        ELSE IF req = Eof THEN [h EXCEPT !.close_connection = TRUE]
        ELSE IF ~parsed.ok THEN hp
        ELSE IF hp.command \notin {"GET", "HEAD"}
        THEN SendError(cls, hp, 501, "Unsupported method", <<hp.command>>, t)
        ELSE SendHead(cls, hp, f, req.ims, t)

\* the rest of do_GET (copyfile, f.close()) or do_HEAD (f.close())
CopyFile(h) ==
    IF h.pending.t = "body" /\ h.command = "GET"
    THEN [h EXCEPT !.wfile = Append(@, h.pending), !.pending = NoBody]
    ELSE [h EXCEPT !.pending = NoBody]

--------------------------------------------------------------------------
(* Reading a response off the wire *)

Names(items) == {items[i].k : i \in {j \in 1..Len(items) : items[j].t = "hdr"}}

Count(items, k) == Cardinality({i \in 1..Len(items) : items[i].t = "hdr" /\ items[i].k = k})

RECURSIVE Without(_, _)
\* the items without the headers named in S
Without(items, S) ==
    IF items = <<>> THEN <<>>
    ELSE IF Head(items).t = "hdr" /\ Head(items).k \in S THEN Without(Tail(items), S)
    ELSE <<Head(items)>> \o Without(Tail(items), S)

Position(items, t) ==
    LET is == {i \in 1..Len(items) : items[i].t = t}
    IN  IF is = {} THEN 0 ELSE CHOOSE i \in is : \A j \in is : i <= j

StatusOf(items) == IF Position(items, "status") = 0 THEN 0 ELSE items[Position(items, "status")].n

BodyOf(items) == IF Position(items, "body") = 0 THEN NoBody ELSE items[Position(items, "body")]

\* the header lines of one name, in order
Lines(items, k) == SelectSeq(items, LAMBDA it : it.t = "hdr" /\ it.k = k)

--------------------------------------------------------------------------
(* The processes.  proc[i] is one run of serve.py:                         *)
(*   pc  "start"     before line 14                                        *)
(*       "bound"     line 14 done: the socket is bound and listening       *)
(*       "serving"   in serve_forever, waiting in select()                 *)
(*       "handling"  in serve_forever, inside _handle_request_noblock      *)
(*       "failed"    ended by the OSError that line 14 raised              *)
(*       "killed"    ended by a signal                                     *)
(*   printed   lines written by line 15                                    *)
(* conn[c] is a connection slot: st is "idle" (no socket), "backlog" (the  *)
(* client has connected and sent req, the server has not accepted),        *)
(* "handle" (accepted, a handler object exists), "body" (the head is       *)
(* written), "done" (the response is written).  srv is the instance it     *)
(* connected to; ver is the version of the file system it was answered     *)
(* from.                                                                   *)

NoObservation == [req |-> NoReq, ver |-> -1, wfile |-> <<>>]

IdleConn == [st |-> "idle", req |-> NoReq, srv |-> 0, ver |-> 0]

Busy == {"handle", "body", "done"}

\* serve.py:14, the handler class given to HTTPServer
HandlerClass == "NoCacheHandler"

\* socket.bind with SO_REUSEPORT semantics: a second bind succeeds
BindSucceeds_reuseport == TRUE

\* socket.bind on a port (SO_REUSEADDR set, as HTTPServer does): EADDRINUSE
\* while another socket listens there
BindSucceeds == owner = 0

\* line 14 inside try/except: the run goes on after a failed bind
BindFailedPc_swallowed == "bound"

\* the OSError of line 14 is not caught: the process ends with a traceback
BindFailedPc == "failed"

\* ThreadingMixIn.process_request: the loop goes on while a thread handles
ProcessRequestPc_threaded == "serving"

\* BaseServer.process_request calls finish_request in the loop's own thread
ProcessRequestPc == "handling"

\* a server that keeps the handler object of the last request
Retire_keep(h) == h

\* finish_request drops the handler object when it returns
Retire(h) == NoHandler

Init ==
    /\ proc = [i \in Instances |-> [pc |-> "start", printed |-> 0]]
    /\ owner = 0
    /\ conn = [c \in ConnIds |-> IdleConn]
    /\ hs = [c \in ConnIds |-> NoHandler]
    /\ ref = [c \in ConnIds |-> NoHandler]
    /\ fs \in InitialFileSystems
    /\ fsver = 0
    /\ now = 0
    /\ observed = NoObservation

\* serve.py:14  server = HTTPServer(('localhost', 8000), NoCacheHandler)
Bind(i) ==
    /\ proc[i].pc = "start"
    /\ IF BindSucceeds
       THEN /\ owner' = i
            /\ proc' = [proc EXCEPT ![i].pc = "bound"]
       ELSE /\ owner' = owner
            /\ proc' = [proc EXCEPT ![i].pc = BindFailedPc]
    /\ UNCHANGED <<conn, hs, ref, fs, fsver, now, observed>>

\* serve.py:15  print('Serving at http://localhost:8000 (no-cache)')
\* and the entry into serve_forever of line 16
PrintLine(i) ==
    /\ proc[i].pc = "bound"
    /\ proc' = [proc EXCEPT ![i].pc = "serving", ![i].printed = @ + 1]
    /\ UNCHANGED <<owner, conn, hs, ref, fs, fsver, now, observed>>

\* a client connects to localhost:Port and sends request r; the kernel
\* queues the connection on the listening socket
Connect(c, r) ==
    /\ owner # 0
    /\ conn[c].st = "idle"
    /\ conn' = [conn EXCEPT ![c] = [st |-> "backlog", req |-> r, srv |-> owner,
                                    ver |-> 0]]
    /\ UNCHANGED <<proc, owner, hs, ref, fs, fsver, now, observed>>

\* serve.py:16  serve_forever: select(), get_request() and process_request
\* up to the construction of the handler object
Accept(i, c) ==
    /\ proc[i].pc = "serving"
    /\ conn[c].st = "backlog" /\ conn[c].srv = i
    /\ proc' = [proc EXCEPT ![i].pc = ProcessRequestPc]
    /\ conn' = [conn EXCEPT ![c].st = "handle"]
    /\ hs' = [hs EXCEPT ![c] = NewHandler]
    /\ ref' = [ref EXCEPT ![c] = NewHandler]
    /\ UNCHANGED <<owner, fs, fsver, now, observed>>

\* handle_one_request: the request is read and parsed and the response head
\* (or the whole error response) is written
SendHeadStep(c) ==
    /\ conn[c].st = "handle"
    /\ hs' = [hs EXCEPT ![c] = HandleHead(HandlerClass, hs[c], conn[c].req, fs, now)]
    /\ ref' = [ref EXCEPT ![c] =
                  HandleHead("SimpleHTTPRequestHandler", ref[c], conn[c].req, fs, now)]
    /\ conn' = [conn EXCEPT ![c].st = "body", ![c].ver = fsver]
    /\ UNCHANGED <<proc, owner, fs, fsver, now, observed>>

\* do_GET / do_HEAD after send_head: the body is copied to the socket
CopyFileStep(c) ==
    /\ conn[c].st = "body"
    /\ hs' = [hs EXCEPT ![c] = CopyFile(hs[c])]
    /\ ref' = [ref EXCEPT ![c] = CopyFile(ref[c])]
    /\ conn' = [conn EXCEPT ![c].st = "done"]
    /\ UNCHANGED <<proc, owner, fs, fsver, now, observed>>

\* handle() leaves its loop (close_connection), finish_request returns and
\* shutdown_request closes the socket; the client, which now has the whole
\* response, may keep it but for its Date line (when it has kept none, and
\* the file system is as it was when the request was answered)
ShutdownRequest(c) ==
    /\ conn[c].st = "done"
    /\ IF hs[c].close_connection
       THEN /\ conn' = [conn EXCEPT ![c] = IdleConn]
            /\ hs' = [hs EXCEPT ![c] = Retire(hs[c])]
            /\ ref' = [ref EXCEPT ![c] = NoHandler]
            /\ proc' = [proc EXCEPT ![conn[c].srv].pc = "serving"]
       ELSE /\ conn' = [conn EXCEPT ![c].st = "handle", ![c].req = Eof]
            /\ UNCHANGED <<hs, ref, proc>>
    /\ \/ observed' = observed
       \/ /\ observed = NoObservation
          /\ conn[c].ver = fsver
          /\ observed' = [req |-> conn[c].req, ver |-> fsver,
                           wfile |-> Without(hs[c].wfile, {"Date"})]
    /\ UNCHANGED <<owner, fs, fsver, now>>

\* the process is ended by a signal: its sockets close
Kill(i) ==
    /\ proc[i].pc \in {"bound", "serving", "handling"}
    /\ proc' = [proc EXCEPT ![i].pc = "killed"]
    /\ owner' = IF owner = i THEN 0 ELSE owner
    /\ conn' = [c \in ConnIds |-> IF conn[c].srv = i THEN IdleConn ELSE conn[c]]
    /\ hs' = [c \in ConnIds |-> IF conn[c].srv = i THEN NoHandler ELSE hs[c]]
    /\ ref' = [c \in ConnIds |-> IF conn[c].srv = i THEN NoHandler ELSE ref[c]]
    /\ UNCHANGED <<fs, fsver, now, observed>>

\* time passes
Tick ==
    /\ now < MaxTime
    /\ now' = now + 1
    /\ UNCHANGED <<proc, owner, conn, hs, ref, fs, fsver, observed>>

\* another process rewrites a.txt
FsChange ==
    /\ fsver < MaxFsChanges
    /\ fsver' = fsver + 1
    /\ fs' = [fs EXCEPT ![<<"www", "a.txt">>] = File(fsver + 1, now)]
    /\ UNCHANGED <<proc, owner, conn, hs, ref, now, observed>>

ServerStep ==
    \/ \E i \in Instances : Bind(i) \/ PrintLine(i)
    \/ \E i \in Instances, c \in ConnIds : Accept(i, c)
    \/ \E c \in ConnIds : SendHeadStep(c) \/ CopyFileStep(c) \/ ShutdownRequest(c)

(* Spec: one instance, connections that interleave, a clock and a file     *)
(* system that other processes change.                                     *)
Next ==
    \/ Bind(1)
    \/ PrintLine(1)
    \/ \E c \in ConnIds, r \in Requests : Connect(c, r)
    \/ \E c \in ConnIds : Accept(1, c)
    \/ \E c \in ConnIds : SendHeadStep(c)
    \/ \E c \in ConnIds : CopyFileStep(c)
    \/ \E c \in ConnIds : ShutdownRequest(c)
    \/ Tick
    \/ FsChange

Spec == Init /\ [][Next]_vars

(* SpecPorts: two instances started on the same port, and signals.         *)
NextPorts ==
    \/ \E i \in Instances : Bind(i)
    \/ \E i \in Instances : PrintLine(i)
    \/ \E i \in Instances : Kill(i)
    \/ \E c \in ConnIds, r \in PortRequests : Connect(c, r)
    \/ \E i \in Instances, c \in ConnIds : Accept(i, c)
    \/ \E c \in ConnIds : SendHeadStep(c)
    \/ \E c \in ConnIds : CopyFileStep(c)
    \/ \E c \in ConnIds : ShutdownRequest(c)

SpecPorts == Init /\ [][NextPorts]_vars

(* SpecRequests: a running instance serves one request, any of AllRequests *)
(* or a GET of any path of at most MaxSegs segments, at any time, from any *)
(* of the file systems.                                                    *)
InitRequests ==
    /\ proc = [i \in Instances |->
                  IF i = 1 THEN [pc |-> "serving", printed |-> 1]
                  ELSE [pc |-> "start", printed |-> 0]]
    /\ owner = 1
    /\ \E r \in AllRequests \cup PathRequests :
          conn = [c \in ConnIds |->
                     IF c = 1 THEN [st |-> "backlog", req |-> r, srv |-> 1, ver |-> 0]
                     ELSE IdleConn]
    /\ hs = [c \in ConnIds |-> NoHandler]
    /\ ref = [c \in ConnIds |-> NoHandler]
    /\ fs \in InitialFileSystems
    /\ fsver = 0
    /\ now \in 0..MaxTime
    /\ observed = NoObservation

NextRequests ==
    \/ \E c \in ConnIds : Accept(1, c)
    \/ \E c \in ConnIds : SendHeadStep(c)
    \/ \E c \in ConnIds : CopyFileStep(c)
    \/ \E c \in ConnIds : ShutdownRequest(c)

SpecRequests == InitRequests /\ [][NextRequests]_vars

--------------------------------------------------------------------------
(* Properties *)

\* the connections with a handler at work
Handled == {c \in ConnIds : conn[c].st \in Busy}

\* the connections to which something has been written
Answered == {c \in Handled : hs[c].wfile # <<>>}

\* The requests that are answered with a status line and headers: the handler
\* has taken a request version other than HTTP/0.9 from the request line by
\* the time it answers.
SentWithHeaders(req) ==
    \/ req.toolong
    \/ /\ req.nwords >= 3
       /\ VersionNumber(req.version) # <<-1, -1>>
       /\ ~TupleGE(VersionNumber(req.version), <<2, 0>>)
       /\ req.version # "HTTP/0.9"

\* the three headers, as the specification words them
Required ==
    << Hdr("Cache-Control", "no-store, no-cache, must-revalidate, max-age=0", 0),
       Hdr("Pragma", "no-cache", 0),
       Hdr("Expires", "0", 0) >>

NoCacheNames == {Required[i].k : i \in 1..3}

HasRequired(items) ==
    \A i \in 1..3 :
        /\ Lines(items, Required[i].k) # <<>>
        /\ \A j \in 1..Len(Lines(items, Required[i].k)) :
               Lines(items, Required[i].k)[j] = Required[i]

Bare(items) == \A i \in 1..Len(items) : items[i].t = "body"

\* C1 as stated: every response, whatever the request and the status, has
\* Cache-Control, Pragma and Expires with the three values.
C1_EveryResponseNoCache == \A c \in Answered : HasRequired(hs[c].wfile)

\* C1, amended: every response that has a header block has the three headers
\* with the three values; a response to a request line that gives the handler
\* no request version but HTTP/0.9 is a bare body, without any header.
C1_HeaderBlocksNoCache ==
    \A c \in Answered :
        IF SentWithHeaders(conn[c].req)
        THEN HasRequired(hs[c].wfile)
        ELSE Bare(hs[c].wfile)

C1_Witness ==
    \E c \in Answered :
        /\ StatusOf(hs[c].wfile) = 404
        /\ HasRequired(hs[c].wfile)
        /\ "missing" \in {conn[c].req.target[i] : i \in 1..Len(conn[c].req.target)}

\* C2: the response of NoCacheHandler is the response of the default handler
\* to the same request with the three headers added and nothing else changed:
\* same status, same body, same other headers, same connection handling.
C2_SameAsDefaultButHeaders ==
    \A c \in Handled :
        /\ Without(hs[c].wfile, NoCacheNames) = ref[c].wfile
        /\ Names(ref[c].wfile) \cap NoCacheNames = {}
        /\ Len(hs[c].wfile) - Len(ref[c].wfile) \in {0, 3}
        /\ StatusOf(hs[c].wfile) = StatusOf(ref[c].wfile)
        /\ BodyOf(hs[c].wfile) = BodyOf(ref[c].wfile)
        /\ hs[c].pending = ref[c].pending
        /\ hs[c].opened = ref[c].opened
        /\ hs[c].close_connection = ref[c].close_connection

C2_Witness ==
    \E c \in Handled :
        /\ conn[c].st = "done"
        /\ StatusOf(ref[c].wfile) = 200
        /\ BodyOf(ref[c].wfile).k = "listing"
        /\ Len(hs[c].wfile) = Len(ref[c].wfile) + 3

InsideTree(path) == IsPrefix(Directory, path)

\* C3 as stated: whatever the request path, the file or directory the server
\* reads lies inside the tree rooted at the working directory.
C3_ReadsInsideTree ==
    \A c \in Handled : hs[c].opened # NoPath => InsideTree(hs[c].opened)

\* C3, amended: the path the server opens or lists is the working directory
\* followed by names of which none is "..", "." or empty, so no request path
\* leads out of the tree; what is read is the node of that very path, inside
\* the tree, unless the path runs through a symbolic link, which is followed
\* to wherever it points.
C3_PathInsideTree ==
    \A c \in Handled :
        /\ hs[c].local # <<>> =>
               /\ InsideTree(hs[c].local)
               /\ \A i \in 1..Len(hs[c].local) : hs[c].local[i] \notin {"..", ".", ""}
        /\ hs[c].opened # NoPath =>
               /\ hs[c].local # <<>>
               /\ ThroughLink(fs, hs[c].local) \/ hs[c].opened = hs[c].local

C3_Witness ==
    \E c \in Handled :
        /\ conn[c].req.target = <<"sub", "..", "a.txt">>
        /\ hs[c].opened = <<"www", "a.txt">>

\* C4: the same GET request answered twice, with the file system unchanged from
\* the first to the second, has the same body and the same Cache-Control,
\* Pragma and Expires lines both times.
C4_SameRequestSameResponse ==
    \A c \in ConnIds :
        ( /\ conn[c].st = "done"
          /\ conn[c].req.command = "GET"
          /\ observed.req = conn[c].req
          /\ observed.ver = fsver /\ conn[c].ver = fsver )
        => /\ BodyOf(hs[c].wfile) = BodyOf(observed.wfile)
           /\ \A k \in NoCacheNames : Lines(hs[c].wfile, k) = Lines(observed.wfile, k)

C4_Witness ==
    \E c \in ConnIds :
        /\ conn[c].st = "done"
        /\ observed.req = conn[c].req
        /\ observed.ver = fsver /\ conn[c].ver = fsver
        /\ StatusOf(observed.wfile) = 200
        /\ BodyOf(hs[c].wfile).k = "file"
        /\ HasRequired(hs[c].wfile)
        /\ fsver > 0

\* a step in which server i takes connection c off the listening socket
Dispatch(i, c) == conn[c].st = "backlog" /\ conn'[c].st = "handle" /\ conn[c].srv = i

AtRest ==
    \A c \in ConnIds :
        /\ c \notin Handled => hs[c] = NoHandler
        /\ hs[c].buf = <<>>

IndependentOfHistory ==
    \A c \in ConnIds :
        ( /\ conn[c].st = "done"
          /\ observed.req = conn[c].req
          /\ observed.ver = fsver /\ conn[c].ver = fsver )
        => Without(hs[c].wfile, {"Date"}) = observed.wfile

\* C5: the handler keeps nothing from one request to the next and the server
\* never writes the file system: no handler object and no queued header
\* outlives its request, a request starts with a new handler object, no step
\* of the server changes the file system, and a request answered earlier is
\* answered the same (but for the Date line) after any other requests.
C5_Stateless ==
    /\ [](AtRest /\ IndependentOfHistory)
    /\ [][ /\ ServerStep => (fs' = fs /\ fsver' = fsver)
           /\ \A c \in ConnIds : Dispatch(1, c) => hs'[c] = NewHandler ]_vars

C5_Witness ==
    /\ observed # NoObservation
    /\ \E c \in ConnIds :
          /\ conn[c].st = "done"
          /\ observed.req = conn[c].req
          /\ observed.req.ims = 0
          /\ StatusOf(hs[c].wfile) = 304
    /\ \E d \in ConnIds : conn[d].st = "backlog" /\ conn[d].req # observed.req

Listening(i) == owner = i /\ proc[i].pc \in {"bound", "serving", "handling"}

\* C6: an instance started while another is bound to the port fails in its
\* line 14 and is over: it has printed nothing, no connection is or was ever
\* its own, and the step in which it fails leaves the other instance, the
\* port and every connection as they were.
C6_SecondInstanceFails ==
    /\ [](\A i \in Instances :
            /\ proc[i].pc = "failed" =>
                  /\ proc[i].printed = 0
                  /\ owner # i
                  /\ \A c \in ConnIds : conn[c].srv # i
            /\ owner = i => Listening(i))
    /\ [][ \A i \in Instances :
             /\ ( proc[i].pc = "start" /\ proc'[i] # proc[i] /\ owner \notin {0, i} )
                => /\ proc'[i].pc = "failed"
                   /\ owner' = owner
                   /\ proc'[owner] = proc[owner]
                   /\ conn' = conn /\ hs' = hs
             /\ proc[i].pc = "failed" =>
                   /\ proc'[i] = proc[i]
                   /\ \A c \in ConnIds : ~Dispatch(i, c) ]_vars

C6_Witness ==
    /\ proc[2].pc = "failed"
    /\ proc[1].pc = "handling"
    /\ \E c \in ConnIds : conn[c].st = "done" /\ conn[c].srv = 1 /\ StatusOf(hs[c].wfile) = 200

\* C7: the line is printed at most once; it is printed by an instance that
\* holds the port, from the place between lines 14 and 16; an instance that
\* is in serve_forever has printed it exactly once, and has done so before it
\* takes a first connection; an instance whose bind failed has printed nothing.
C7_PrintedOnceAfterBind ==
    /\ [](\A i \in Instances :
            /\ proc[i].printed <= 1
            /\ proc[i].pc \in {"start", "bound", "failed"} => proc[i].printed = 0
            /\ proc[i].pc \in {"serving", "handling"} => proc[i].printed = 1)
    /\ [][ \A i \in Instances :
             /\ proc'[i].printed # proc[i].printed =>
                   /\ proc'[i].printed = proc[i].printed + 1
                   /\ proc[i].pc = "bound" /\ owner = i
                   /\ \A c \in ConnIds : conn[c].srv = i => conn[c].st = "backlog"
             /\ \A c \in ConnIds : Dispatch(i, c) => proc[i].printed = 1 ]_vars

C7_Witness ==
    /\ proc[1].pc = "killed" /\ proc[1].printed = 1
    /\ proc[2].pc = "handling" /\ proc[2].printed = 1
    /\ \E c \in ConnIds : conn[c].st = "handle" /\ conn[c].srv = 2

\* C8: at every moment at most one connection is in the hands of a handler,
\* and a connection is taken off the listening socket only when no other is:
\* one that arrives while a request is handled waits until the response to
\* that request is written and its socket closed.
C8_OneAtATime ==
    /\ [](Cardinality(Handled) <= 1)
    /\ [][ \A c \in ConnIds : Dispatch(1, c) => Handled = {} ]_vars

C8_Witness ==
    \E c, d \in ConnIds :
        /\ conn[c].st = "body" /\ hs[c].wfile # <<>>
        /\ conn[d].st = "backlog"

Before(items, i) == SubSeq(items, 1, i - 1)

\* C9 as stated: in every response, nothing that ends the header block and no
\* body is sent before the three headers.
C9_NothingBeforeTheHeaders ==
    \A c \in Answered :
        \A i \in 1..Len(hs[c].wfile) :
            hs[c].wfile[i].t \in {"end", "body"} => HasRequired(Before(hs[c].wfile, i))

\* C9, amended: in every response that has a header block, the three headers
\* are the last three lines of the block, after the status line and every
\* header the default handler queued, in the order Cache-Control, Pragma,
\* Expires; the blank line follows them and the body follows the blank line;
\* nothing stays queued.  A response without a header block (an HTTP/0.9
\* request version) is a body sent with no header before it.
C9_HeadersCloseTheBlock ==
    \A c \in Answered :
        LET w == hs[c].wfile
            e == Position(w, "end")
        IN  /\ hs[c].buf = <<>>
            /\ IF SentWithHeaders(conn[c].req)
               THEN /\ e >= 5
                    /\ SubSeq(w, e - 3, e - 1) = Required
                    /\ Before(w, e - 3) = Before(ref[c].wfile, e - 3)
                    /\ \A i \in 1..(e - 4) : w[i].t \in {"status", "hdr"}
                    /\ \A i \in (e + 1)..Len(w) : w[i].t = "body"
               ELSE Bare(w)

C9_Witness ==
    \E c \in Answered :
        LET w == hs[c].wfile
        IN  /\ StatusOf(w) = 301
            /\ Position(w, "end") = Len(w)
            /\ w[Len(w) - 5].k = "Location"
            /\ w[Len(w) - 3].k = "Cache-Control"

\* C10 as stated: in every response each of the three headers appears exactly
\* once.
C10_ExactlyOnceInEveryResponse ==
    \A c \in Answered : \A k \in NoCacheNames : Count(hs[c].wfile, k) = 1

\* C10, amended: end_headers runs exactly once for a response, whatever way
\* the handler takes; a response that has a header block has one blank line
\* and each of the three headers exactly once; a response without a header
\* block has none of them.  No response has one of them twice.
C10_OncePerHeaderBlock ==
    \A c \in Handled :
        /\ hs[c].calls <= 1
        /\ c \in Answered =>
              /\ hs[c].calls = 1
              /\ \A k \in NoCacheNames :
                    Count(hs[c].wfile, k) = IF SentWithHeaders(conn[c].req) THEN 1 ELSE 0
              /\ Cardinality({i \in 1..Len(hs[c].wfile) : hs[c].wfile[i].t = "end"})
                    = IF SentWithHeaders(conn[c].req) THEN 1 ELSE 0

C10_Witness ==
    \E c \in Answered :
        /\ StatusOf(hs[c].wfile) = 304
        /\ hs[c].calls = 1
        /\ \A k \in NoCacheNames : Count(hs[c].wfile, k) = 1

==========================================================================
